---- MODULE Spec2Model ----
(***************************************************************************)
(* A model of the marathon batch pipeline: BatchPGWorker (pgReader, the    *)
(* status updater, the worker pools it starts) and the kafka Producer.     *)
(***************************************************************************)
EXTENDS Integers, Sequences, FiniteSets, TLC

(* ---- bounds of the model ---------------------------------------------- *)
MaxTokens == 3      \* the store holds 0..MaxTokens matching user tokens
MaxLimit == 2       \* LIMIT modifiers range over -1..MaxLimit
MaxWorkers == 2     \* at most MaxWorkers goroutines are modelled per stage
QueueCap == 1       \* capacity given to the data channels by an override
MaxFaults == 1      \* external calls (db, json, kafka, redis) that may fail
CancelTokens == 2   \* the store of the runs with cancellation holds 0..CancelTokens
MaxTime == 2        \* the clock of the template cache runs over 0..MaxTime
MaxCallers == 2     \* goroutines that call the template cache
MaxBody == 3        \* tokens in a template body
MaxUsers == 2       \* users in the users element of a job array
MaxGetDB == 6       \* calls of GetDB in a run
MaxConnArgs == 3    \* distinct connection arguments given to GetDB

(* ---- configuration (viper) -------------------------------------------- *)
\* The integer defaults of setConfigurationDefaults.
ConfigDefaults ==
    [k \in {"workers.modules.producers",
            "workers.postgres.defaults.pushexpiry",
            "workers.postgres.defaults.modifiers.limit",
            "workers.modules.batchpgworkerdonechan",
            "workers.modules.pgtoparserchan",
            "workers.modules.parserdonechan",
            "workers.modules.parsertofetcherchan",
            "workers.modules.fetcherdonechan",
            "workers.modules.fetchertobuilderchan",
            "workers.modules.builderdonechan",
            "workers.modules.buildertoproducerchan",
            "workers.modules.producerdonechan"} |->
        CASE k = "workers.modules.producers" -> 1
          [] k = "workers.postgres.defaults.pushexpiry" -> 0
          [] k = "workers.postgres.defaults.modifiers.limit" -> 1000
          [] k = "workers.modules.pgtoparserchan" -> 10000
          [] k = "workers.modules.parsertofetcherchan" -> 1000
          [] k = "workers.modules.fetchertobuilderchan" -> 1000
          [] k = "workers.modules.buildertoproducerchan" -> 1000
          [] OTHER -> 1]

\* The names of the four data channels, in pipeline order.
DataChans ==
    <<"PgToParserChan", "ParserToFetcherChan", "FetcherToBuilderChan",
      "BuilderToProducerChan">>

\* The configuration key createChannels reads for each data channel.
ChanSizeKey(c) ==
    CASE c = "PgToParserChan" -> "pgtoparserchansize"
      [] c = "ParserToFetcherChan" -> "parsertofetcherchansize"
      [] c = "FetcherToBuilderChan" -> "fetchertobuilderchansize"
      [] c = "BuilderToProducerChan" -> "buildertoproducerchansize"

\* The stages Start spawns, in pipeline order, and the key of each pool size.
Stages == <<"parser", "fetcher", "builder", "producer">>

QtyKey(s) ==
    CASE s = "parser" -> "workers.modules.parsers"
      [] s = "fetcher" -> "workers.modules.fetchers"
      [] s = "builder" -> "workers.modules.builders"
      [] s = "producer" -> "workers.modules.producers"

\* A configuration file that sets every channel size to cap and the three
\* template pools to n workers, and the producers to p.
ConfigFile(cap, n, p) ==
    [k \in {ChanSizeKey(DataChans[i]) : i \in 1..4} \cup {QtyKey(Stages[i]) : i \in 1..4} |->
        IF k \in {ChanSizeKey(DataChans[i]) : i \in 1..4} THEN cap
        ELSE IF k = "workers.modules.producers" THEN p ELSE n]

\* A configuration file that sets nothing: every key falls to its default.
EmptyConfigFile == [k \in {} |-> 0]

ConfigFiles ==
    {EmptyConfigFile, ConfigFile(0, 1, 1), ConfigFile(QueueCap, 1, 1),
     ConfigFile(QueueCap, 1, 2)}

(* ---- inputs of a job -------------------------------------------------- *)
\* The user_tokens table of the job's app and service: tokens 1..n.
Stores == {[i \in 1..n |-> i] : n \in 0..MaxTokens}

\* Modifier lists: one without LIMIT, and one per LIMIT value.
ModifierLists ==
    {<<[op |-> "ORDER BY", arg |-> 0]>>} \cup
    {<<[op |-> "LIMIT", arg |-> l]>> : l \in (-1)..MaxLimit}

\* What happens to the job's records downstream of the Reader.
JobKinds == {"ok", "notemplate", "expired"}

VARIABLES
    config,          \* the configuration file read by loadConfiguration
    db,              \* the matching user tokens in the relational store
    modifiers,       \* worker.Modifiers
    jobKind,         \* whether the job's template exists / the job is expired
    started,         \* Start has run
    requireToken,    \* the requireToken argument the Parsers run with
    alive,           \* the process has not been ended by Fatal or a panic
    faults,          \* external calls that have failed so far
    pcReader,        \* position of the pgReader goroutine
    limit,           \* pgReader's local `limit`
    userTokens,      \* pgReader's local `userTokens` (the current batch)
    rangeIdx,        \* position of `for _, userToken := range userTokens`
    TotalTokens, ProcessedTokens, TotalPages, ProcessedPages,
    message,         \* worker.Message (the shared job): its Token field
    queries,         \* the queries issued to the relational store, in order
    chans,           \* the buffers of the four data channels
    closed,          \* the channels that have been closed
    pcw,             \* position of each stage worker
    cur,             \* the item each stage worker holds
    counters,        \* drop counters of the parser, fetcher and builder
    bus,             \* messages accepted by kafka, in order
    sendFailed,      \* messages whose SendMessage returned an error
    producerOpen,    \* the producers whose sarama connection is open
    pcStatus,        \* position of the updateStatus goroutine
    snap,            \* the status map GetStatus is building
    kv,              \* the value stored under the redis key, or NoStatus
    tcEntries,       \* TemplateCache: the entry stored under each key
    tcMutex,         \* TemplateCache: the caller that holds its lock
    tcClock,         \* the time, in units of the cache's TTL argument
    tcCalls,         \* the cache call each caller is in
    tcFound,         \* the key and result of the last FindTemplate
    tcLastPut,       \* history: the last AddTemplate completed for each key
    template,        \* the template of the message being built
    context,         \* the job's context
    userData,        \* the per-user values of the record
    merged,          \* the context the Fetcher hands to the Builder
    msg,             \* the rendered pieces of the message
    unresolved,      \* the UnresolvedVariable counter
    pcRender,        \* position of the record in the Fetcher and Builder
    arr,             \* the job array handed to ParseProcessBatchWorkerMessageArray
    parsed,          \* what ParseProcessBatchWorkerMessageArray returned
    _db,             \* models._db, the handle GetDB keeps
    initCalls,       \* the calls of InitDb made so far
    getCalls,        \* the calls of GetDB made so far
    got,             \* the arguments and the result of the last GetDB
    firstDB          \* history: the handle of the first successful GetDB

workerVars ==
    <<config, db, modifiers, jobKind, started, requireToken, alive, faults, pcReader, limit,
      userTokens, rangeIdx, TotalTokens, ProcessedTokens, TotalPages,
      ProcessedPages, message, queries, chans, closed, pcw, cur, counters, bus,
      sendFailed, producerOpen, pcStatus, snap, kv>>

cacheVars == <<tcEntries, tcMutex, tcClock, tcCalls, tcFound, tcLastPut>>

renderVars ==
    <<template, context, userData, merged, msg, unresolved, pcRender>>

parseVars == <<arr, parsed>>

dbVars == <<_db, initCalls, getCalls, got, firstDB>>

libVars == <<cacheVars, renderVars, parseVars, dbVars>>

vars == <<workerVars, libVars>>

readerVars ==
    <<pcReader, limit, userTokens, rangeIdx, TotalTokens, ProcessedTokens,
      TotalPages, ProcessedPages, message, queries>>

inputVars == <<config, db, modifiers, jobKind>>

statusVars == <<pcStatus, snap, kv>>

(* ---- helpers ---------------------------------------------------------- *)
Min(a, b) == IF a < b THEN a ELSE b

\* viper's GetInt: the file's value, else the default, else 0.
GetInt(k) ==
    IF k \in DOMAIN config THEN config[k]
    ELSE IF k \in DOMAIN ConfigDefaults THEN ConfigDefaults[k]
    ELSE 0

\* createChannels: the capacity each data channel is made with.
Cap(c) == GetInt(ChanSizeKey(c))

\* Start: the number of goroutines of each stage.
Qty(s) == Min(GetInt(QtyKey(s)), MaxWorkers)

Workers == {"parser", "fetcher", "builder", "producer"} \X (1..MaxWorkers)

InChan(s) ==
    CASE s = "parser" -> "PgToParserChan"
      [] s = "fetcher" -> "ParserToFetcherChan"
      [] s = "builder" -> "FetcherToBuilderChan"
      [] s = "producer" -> "BuilderToProducerChan"

OutChan(s) ==
    CASE s = "parser" -> "ParserToFetcherChan"
      [] s = "fetcher" -> "FetcherToBuilderChan"
      [] s = "builder" -> "BuilderToProducerChan"

\* The value of the last modifier named op, or dflt: the loop at the head of
\* pgReader, and the way the query helpers read LIMIT and OFFSET.
RECURSIVE ModifierArg(_, _, _)
ModifierArg(mods, op, dflt) ==
    IF mods = <<>> THEN dflt
    ELSE LET m == mods[Len(mods)]
         IN IF m.op = op THEN m.arg
            ELSE ModifierArg(SubSeq(mods, 1, Len(mods) - 1), op, dflt)

\* models.CountUserTokensByFilters: the number of matching tokens.
CountUserTokensByFilters(store, mods) == Len(store)

\* models.GetUserTokensBatchByFilters: the slice of the matching tokens that
\* the LIMIT and OFFSET entries of the modifiers it is given select.
GetUserTokensBatchByFilters(store, mods) ==
    LET l == ModifierArg(mods, "LIMIT", Len(store))
        o == ModifierArg(mods, "OFFSET", 0)
    IN SubSeq(store, o + 1, Min(o + l, Len(store)))

\* pgReader's local workerModifiers for a page (built, never passed on).
workerModifiers(lim, page) ==
    <<[op |-> "LIMIT", arg |-> lim], [op |-> "OFFSET", arg |-> page]>>

\* A page count that rounds the quotient up: no page for a count of 0.
Pages_Ceil(count, lim) == (count + lim - 1) \div lim

\* pages := userTokensCount/int64(limit) + 1
Pages(count, lim) == (count \div lim) + 1

NoItem == 0
NoStatus == <<>>
NotRead == -1
StatusFields ==
    {"totalTokens", "processedTokens", "totalPages", "processedPages", "message"}

(* ---- construction ----------------------------------------------------- *)
\* The worker after GetBatchPGWorker (Configure), before Start.
WorkerConfigured ==
    /\ started = FALSE
    /\ requireToken = FALSE
    /\ alive = TRUE
    /\ faults = 0
    /\ pcReader = "off"
    /\ limit = -1
    /\ userTokens = <<>>
    /\ rangeIdx = 0
    /\ TotalTokens = 0
    /\ ProcessedTokens = 0
    /\ TotalPages = 0
    /\ ProcessedPages = 0
    /\ message = NoItem
    /\ queries = <<>>
    /\ chans = [c \in {DataChans[i] : i \in 1..4} |-> <<>>]
    /\ closed = {}
    /\ pcw = [w \in Workers |-> "off"]
    /\ cur = [w \in Workers |-> NoItem]
    /\ counters = [r \in {"ParserSkipped", "ParserError", "TemplateMissing",
                            "Expired"} |-> 0]
    /\ bus = <<>>
    /\ sendFailed = 0
    /\ producerOpen = {}
    /\ pcStatus = "off"
    /\ snap = [f \in StatusFields |-> NotRead]
    /\ kv = NoStatus

\* BatchPGWorker.Start: spawn the status updater, the pools and pgReader.
Start ==
    /\ ~started
    /\ started' = TRUE
    /\ requireToken' = FALSE
    /\ pcStatus' = "select"
    /\ pcw' = [w \in Workers |->
                 IF w[2] <= Qty(w[1])
                 THEN (IF w[1] = "producer" THEN "init" ELSE "recv")
                 ELSE "off"]
    /\ pcReader' = "limit"
    /\ UNCHANGED <<inputVars, libVars, alive, faults, limit, userTokens, rangeIdx,
                   TotalTokens, ProcessedTokens, TotalPages, ProcessedPages,
                   message, queries, chans, closed, cur, counters, bus,
                   sendFailed, producerOpen, snap, kv>>

Running == started /\ alive

\* zap's Fatal logs and ends the process (os.Exit(1)); an unrecovered panic
\* ends it too: no goroutine takes another step.
ProcessEnds == alive' = FALSE

(* ---- pgReader --------------------------------------------------------- *)
\* A check that lets a LIMIT of 0 through.
InvalidLimit_Negative(l) == l < 0

\* if limit <= 0 { worker.Logger.Fatal(...) }
InvalidLimit(l) == l <= 0

\* limit := -1; for ... if modifier[0] == "LIMIT" { limit = modifier[1] }
pgReader_Limit ==
    /\ Running /\ pcReader = "limit"
    /\ limit' = ModifierArg(modifiers, "LIMIT", -1)
    /\ IF InvalidLimit(limit')
       THEN pcReader' = "fatal" /\ ProcessEnds
       ELSE pcReader' = "count" /\ alive' = alive
    /\ UNCHANGED <<inputVars, libVars, requireToken, started, faults, userTokens, rangeIdx, TotalTokens,
                   ProcessedTokens, TotalPages, ProcessedPages, message,
                   queries, chans, closed, pcw, cur, counters, bus, sendFailed,
                   producerOpen, statusVars>>

\* userTokensCount, err := models.CountUserTokensByFilters(...);
\* worker.TotalTokens = userTokensCount
pgReader_Count ==
    /\ Running /\ pcReader = "count"
    /\ queries' = Append(queries, [kind |-> "count", limit |-> 0, offset |-> 0])
    /\ \/ /\ faults < MaxFaults
          /\ faults' = faults + 1
          /\ pcReader' = "fatal" /\ ProcessEnds
          /\ UNCHANGED TotalTokens
       \/ /\ TotalTokens' = CountUserTokensByFilters(db, modifiers)
          /\ pcReader' = "pages"
          /\ UNCHANGED <<faults, alive>>
    /\ UNCHANGED <<inputVars, libVars, requireToken, started, limit, userTokens, rangeIdx,
                   ProcessedTokens, TotalPages, ProcessedPages, message, chans,
                   closed, pcw, cur, counters, bus, sendFailed, producerOpen,
                   statusVars>>

\* pages := userTokensCount/int64(limit) + 1; worker.TotalPages = pages;
\* for worker.ProcessedPages = int64(0); ...
pgReader_Pages ==
    /\ Running /\ pcReader = "pages"
    /\ IF limit = 0
       THEN /\ pcReader' = "panic" /\ ProcessEnds   \* integer divide by zero
            /\ UNCHANGED <<TotalPages, ProcessedPages>>
       ELSE /\ TotalPages' = Pages(TotalTokens, limit)
            /\ ProcessedPages' = 0
            /\ pcReader' = "page"
            /\ alive' = alive
    /\ UNCHANGED <<inputVars, libVars, requireToken, started, faults, limit, userTokens, rangeIdx,
                   TotalTokens, ProcessedTokens, message, queries, chans,
                   closed, pcw, cur, counters, bus, sendFailed, producerOpen,
                   statusVars>>

\* The modifiers pgReader hands to GetUserTokensBatchByFilters for a page.
BatchModifiers(page) == modifiers

\* A page that starts with the count the previous page left.
PageStartTokens_Keep(processed) == processed

\* The value pgReader gives worker.ProcessedTokens when a page starts.
PageStartTokens(processed) == 0

\* One evaluation of the page loop's condition: either the loop is over and
\* pgReader returns, or the batch of the page is fetched.
pgReader_Page ==
    /\ Running /\ pcReader = "page"
    /\ IF ProcessedPages < TotalPages
       THEN /\ queries' = Append(queries,
                  [kind |-> "batch",
                   limit |-> ModifierArg(BatchModifiers(ProcessedPages), "LIMIT", -1),
                   offset |-> ModifierArg(BatchModifiers(ProcessedPages), "OFFSET", 0)])
            /\ \/ /\ faults < MaxFaults
                  /\ faults' = faults + 1
                  /\ pcReader' = "failed"         \* return outChan, err
                  /\ UNCHANGED <<userTokens, ProcessedTokens>>
               \/ /\ userTokens' = GetUserTokensBatchByFilters(
                                       db, BatchModifiers(ProcessedPages))
                  /\ ProcessedTokens' = PageStartTokens(ProcessedTokens)
                  /\ pcReader' = "loop"
                  /\ UNCHANGED faults
       ELSE /\ pcReader' = "returned"             \* return outChan, nil
            /\ UNCHANGED <<queries, faults, userTokens, ProcessedTokens>>
    /\ UNCHANGED <<inputVars, libVars, requireToken, started, alive, limit, rangeIdx, TotalTokens,
                   TotalPages, ProcessedPages, message, chans, closed, pcw, cur,
                   counters, bus, sendFailed, producerOpen, statusVars>>

\* for worker.ProcessedTokens < len(userTokens) { for ... range userTokens
pgReader_Loop ==
    /\ Running /\ pcReader = "loop"
    /\ IF ProcessedTokens < Len(userTokens)
       THEN /\ rangeIdx' = 1
            /\ pcReader' = "marshal"
            /\ UNCHANGED ProcessedPages
       ELSE /\ ProcessedPages' = ProcessedPages + 1
            /\ pcReader' = "page"
            /\ UNCHANGED rangeIdx
    /\ UNCHANGED <<inputVars, libVars, requireToken, started, alive, faults, limit, userTokens,
                   TotalTokens, ProcessedTokens, TotalPages, message, queries,
                   chans, closed, pcw, cur, counters, bus, sendFailed,
                   producerOpen, statusVars>>

\* message.Token = userToken.Token; message.Locale = userToken.Locale;
\* strMsg, err := json.Marshal(message)
pgReader_Marshal ==
    /\ Running /\ pcReader = "marshal"
    /\ message' = userTokens[rangeIdx]
    /\ \/ /\ faults < MaxFaults
          /\ faults' = faults + 1
          /\ pcReader' = "failed"                 \* return outChan, err
       \/ /\ pcReader' = "send"
          /\ UNCHANGED faults
    /\ UNCHANGED <<inputVars, libVars, requireToken, started, alive, limit, userTokens, rangeIdx,
                   TotalTokens, ProcessedTokens, TotalPages, ProcessedPages,
                   queries, chans, closed, pcw, cur, counters, bus, sendFailed,
                   producerOpen, statusVars>>

\* worker.ProcessedTokens++ and the next turn of the range loop.
pgReader_Sent ==
    /\ ProcessedTokens' = ProcessedTokens + 1
    /\ rangeIdx' = rangeIdx + 1
    /\ pcReader' = IF rangeIdx < Len(userTokens) THEN "marshal" ELSE "loop"
    /\ UNCHANGED <<inputVars, libVars, requireToken, started, alive, faults, limit, userTokens,
                   TotalTokens, TotalPages, ProcessedPages, message, queries,
                   closed, bus, sendFailed, producerOpen, statusVars>>

(* ---- the template stages (parser, fetcher, builder) -------------------- *)
EmptyToken == 0

\* A raw record that does not decode.
Undecodable == -1

\* A Parser that skips every record without a token.
ParserOutcome_SkipAlways(item, require) ==
    IF item = Undecodable THEN "ParserError"
    ELSE IF item = EmptyToken THEN "ParserSkipped"
    ELSE "forward"

\* Parser: a record that does not decode is dropped as an error; a record
\* without a token is skipped when requireToken is set.
ParserOutcome(item, require) ==
    IF item = Undecodable THEN "ParserError"
    ELSE IF require /\ item = EmptyToken THEN "ParserSkipped"
    ELSE "forward"

\* What a stage does with a record: forward it, or drop it under a counter.
\* Start passes requireToken = false to every Parser.
StageOutcome(s, item) ==
    CASE s = "parser" -> ParserOutcome(item, requireToken)
      [] s = "fetcher" -> IF jobKind = "notemplate" THEN "TemplateMissing" ELSE "forward"
      [] s = "builder" -> IF jobKind = "expired" THEN "Expired" ELSE "forward"
      [] OTHER -> "forward"

\* A goroutine blocked receiving from its input channel.
WaitingRecv(w) == pcw[w] = (IF w[1] = "producer" THEN "select" ELSE "recv")

\* Worker w receives item x: the new pcw, cur and counters.
AcceptPc(p, w, x) ==
    [p EXCEPT ![w] = IF StageOutcome(w[1], x) = "forward" THEN "send" ELSE "recv"]

AcceptCur(c, w, x) ==
    [c EXCEPT ![w] = IF StageOutcome(w[1], x) = "forward" THEN x ELSE NoItem]

AcceptCounters(k, w, x) ==
    IF StageOutcome(w[1], x) = "forward" THEN k
    ELSE [k EXCEPT ![StageOutcome(w[1], x)] = @ + 1]

\* Worker w has handed its item on.
ReleasePc(p, w) == [p EXCEPT ![w] = "recv"]

ReleaseCur(c, w) == [c EXCEPT ![w] = NoItem]

\* A send that does not wait for room in the buffer.
pgReader_Send_NoWait ==
    /\ Running /\ pcReader = "send"
    /\ Cap("PgToParserChan") > 0
    /\ chans' = [chans EXCEPT !["PgToParserChan"] = Append(@, message)]
    /\ pgReader_Sent
    /\ UNCHANGED <<pcw, cur, counters>>

\* outChan <- string(strMsg) with room in the buffer.
pgReader_Send ==
    /\ Running /\ pcReader = "send"
    /\ Len(chans["PgToParserChan"]) < Cap("PgToParserChan")
    /\ chans' = [chans EXCEPT !["PgToParserChan"] = Append(@, message)]
    /\ pgReader_Sent
    /\ UNCHANGED <<pcw, cur, counters>>

\* outChan <- string(strMsg) on an unbuffered channel: a rendezvous with a
\* Parser blocked in its receive.
pgReader_SendDirect(r) ==
    /\ Running /\ pcReader = "send"
    /\ Cap("PgToParserChan") = 0
    /\ r[1] = "parser" /\ WaitingRecv(r)
    /\ pcw' = AcceptPc(pcw, r, message)
    /\ cur' = AcceptCur(cur, r, message)
    /\ counters' = AcceptCounters(counters, r, message)
    /\ pgReader_Sent
    /\ UNCHANGED chans

\* case msg := <-inChan, from the buffer.
Recv(w) ==
    /\ Running /\ WaitingRecv(w)
    /\ chans[InChan(w[1])] # <<>>
    /\ chans' = [chans EXCEPT ![InChan(w[1])] = Tail(@)]
    /\ pcw' = AcceptPc(pcw, w, Head(chans[InChan(w[1])]))
    /\ cur' = AcceptCur(cur, w, Head(chans[InChan(w[1])]))
    /\ counters' = AcceptCounters(counters, w, Head(chans[InChan(w[1])]))
    /\ UNCHANGED <<inputVars, libVars, requireToken, started, alive, faults, readerVars, closed, bus,
                   sendFailed, producerOpen, statusVars>>

\* outChan <- result with room in the buffer.
StageSend(w) ==
    /\ Running /\ w[1] # "producer" /\ pcw[w] = "send"
    /\ Len(chans[OutChan(w[1])]) < Cap(OutChan(w[1]))
    /\ chans' = [chans EXCEPT ![OutChan(w[1])] = Append(@, cur[w])]
    /\ pcw' = ReleasePc(pcw, w)
    /\ cur' = ReleaseCur(cur, w)
    /\ UNCHANGED <<inputVars, libVars, requireToken, started, alive, faults, readerVars, closed,
                   counters, bus, sendFailed, producerOpen, statusVars>>

\* outChan <- result on an unbuffered channel: a rendezvous with a worker
\* of the next stage blocked in its receive.
StageSendDirect(w, r) ==
    /\ Running /\ w[1] # "producer" /\ pcw[w] = "send"
    /\ Cap(OutChan(w[1])) = 0
    /\ InChan(r[1]) = OutChan(w[1]) /\ WaitingRecv(r)
    /\ pcw' = AcceptPc(ReleasePc(pcw, w), r, cur[w])
    /\ cur' = AcceptCur(ReleaseCur(cur, w), r, cur[w])
    /\ counters' = AcceptCounters(counters, r, cur[w])
    /\ UNCHANGED <<inputVars, libVars, requireToken, started, alive, faults, readerVars, chans, closed,
                   bus, sendFailed, producerOpen, statusVars>>

\* The cancellation signal: every done channel is closed.
DoneChans ==
    {"BatchPGWorkerStatusDoneChan", "BatchPGWorkerDoneChan", "ParserDoneChan",
     "FetcherDoneChan", "BuilderDoneChan", "ProducerDoneChan"}

DoneChan(s) ==
    CASE s = "parser" -> "ParserDoneChan"
      [] s = "fetcher" -> "FetcherDoneChan"
      [] s = "builder" -> "BuilderDoneChan"
      [] s = "producer" -> "ProducerDoneChan"

Cancel ==
    /\ Running
    /\ closed = {}
    /\ closed' = DoneChans
    /\ UNCHANGED <<inputVars, libVars, requireToken, started, alive, faults, readerVars, chans, pcw,
                   cur, counters, bus, sendFailed, producerOpen, statusVars>>

\* case <-doneChan: return, in a template stage: the worker drops the item
\* it holds and exits.
StageDone(w) ==
    /\ Running /\ w[1] # "producer" /\ pcw[w] \in {"recv", "send"}
    /\ DoneChan(w[1]) \in closed
    /\ pcw' = [pcw EXCEPT ![w] = "exit"]
    /\ cur' = ReleaseCur(cur, w)
    /\ UNCHANGED <<inputVars, libVars, requireToken, started, alive, faults, readerVars, chans, closed,
                   counters, bus, sendFailed, producerOpen, statusVars>>

(* ---- the kafka Producer ----------------------------------------------- *)
\* A Producer that goes on to its select loop after NewSyncProducer failed.
Producer_Init_Continue(w) ==
    /\ Running /\ w[1] = "producer" /\ pcw[w] = "init"
    /\ \/ /\ faults < MaxFaults
          /\ faults' = faults + 1
          /\ pcw' = [pcw EXCEPT ![w] = "select"]
          /\ UNCHANGED producerOpen
       \/ /\ producerOpen' = producerOpen \cup {w}
          /\ pcw' = [pcw EXCEPT ![w] = "select"]
          /\ UNCHANGED faults
    /\ UNCHANGED <<inputVars, libVars, requireToken, started, alive, readerVars, chans, closed, cur,
                   counters, bus, sendFailed, statusVars>>

\* producer, err := sarama.NewSyncProducer(...); if err != nil { return };
\* defer producer.Close()
Producer_Init(w) ==
    /\ Running /\ w[1] = "producer" /\ pcw[w] = "init"
    /\ \/ /\ faults < MaxFaults
          /\ faults' = faults + 1
          /\ pcw' = [pcw EXCEPT ![w] = "exit"]
          /\ UNCHANGED producerOpen
       \/ /\ producerOpen' = producerOpen \cup {w}
          /\ pcw' = [pcw EXCEPT ![w] = "select"]
          /\ UNCHANGED faults
    /\ UNCHANGED <<inputVars, libVars, requireToken, started, alive, readerVars, chans, closed, cur,
                   counters, bus, sendFailed, statusVars>>

\* A send that puts the message ahead of the ones kafka already has.
Producer_SendMessage_Front(w) ==
    /\ Running /\ w[1] = "producer" /\ pcw[w] = "send"
    /\ \/ /\ faults < MaxFaults
          /\ faults' = faults + 1
          /\ sendFailed' = sendFailed + 1
          /\ UNCHANGED bus
       \/ /\ bus' = <<cur[w]>> \o bus
          /\ UNCHANGED <<faults, sendFailed>>
    /\ pcw' = [pcw EXCEPT ![w] = "select"]
    /\ cur' = ReleaseCur(cur, w)
    /\ UNCHANGED <<inputVars, libVars, requireToken, started, alive, readerVars,
                   chans, closed, counters, producerOpen, statusVars>>

\* _, _, err = producer.SendMessage(saramaMessage): logged either way.
Producer_SendMessage(w) ==
    /\ Running /\ w[1] = "producer" /\ pcw[w] = "send"
    /\ \/ /\ faults < MaxFaults
          /\ faults' = faults + 1
          /\ sendFailed' = sendFailed + 1
          /\ UNCHANGED bus
       \/ /\ bus' = Append(bus, cur[w])
          /\ UNCHANGED <<faults, sendFailed>>
    /\ pcw' = [pcw EXCEPT ![w] = "select"]
    /\ cur' = ReleaseCur(cur, w)
    /\ UNCHANGED <<inputVars, libVars, requireToken, started, alive, readerVars, chans, closed,
                   counters, producerOpen, statusVars>>

\* The return on done without the deferred producer.Close().
Producer_Done_NoClose(w) ==
    /\ Running /\ w[1] = "producer" /\ pcw[w] = "select"
    /\ DoneChan(w[1]) \in closed
    /\ pcw' = [pcw EXCEPT ![w] = "exit"]
    /\ UNCHANGED <<inputVars, libVars, requireToken, started, alive, faults, readerVars, chans, closed,
                   cur, counters, bus, sendFailed, producerOpen, statusVars>>

\* case <-doneChan: return, and the deferred producer.Close().
Producer_Done(w) ==
    /\ Running /\ w[1] = "producer" /\ pcw[w] = "select"
    /\ DoneChan(w[1]) \in closed
    /\ pcw' = [pcw EXCEPT ![w] = "exit"]
    /\ producerOpen' = producerOpen \ {w}
    /\ UNCHANGED <<inputVars, libVars, requireToken, started, alive, faults, readerVars, chans, closed,
                   cur, counters, bus, sendFailed, statusVars>>

(* ---- the status updater ----------------------------------------------- *)
\* The field of the worker that a key of the status map is read from.
StatusField(f) ==
    CASE f = "totalTokens" -> TotalTokens
      [] f = "processedTokens" -> ProcessedTokens
      [] f = "totalPages" -> TotalPages
      [] f = "processedPages" -> ProcessedPages
      [] f = "message" -> message

\* select { case <-doneChan: return; default: worker.SetStatus() ... }
updateStatus ==
    /\ Running /\ pcStatus = "select"
    /\ pcStatus' = IF "BatchPGWorkerStatusDoneChan" \in closed THEN "exit" ELSE "read"
    /\ snap' = [f \in StatusFields |-> NotRead]
    /\ UNCHANGED <<inputVars, libVars, requireToken, started, alive, faults, readerVars, chans, closed,
                   pcw, cur, counters, bus, sendFailed, producerOpen, kv>>

\* GetStatus copies the worker, with no synchronisation against pgReader:
\* each field is read at a moment of its own.
GetStatus(f) ==
    /\ Running /\ pcStatus = "read"
    /\ snap[f] = NotRead
    /\ snap' = [snap EXCEPT ![f] = StatusField(f)]
    /\ UNCHANGED <<inputVars, libVars, requireToken, started, alive, faults, readerVars, chans, closed,
                   pcw, cur, counters, bus, sendFailed, producerOpen, pcStatus,
                   kv>>

\* SetStatus: json.Marshal(status); cli.Set(redisKey, strStatus, 0); a
\* failure of either is a Logger.Panic. Then time.Sleep.
SetStatus ==
    /\ Running /\ pcStatus = "read"
    /\ \A f \in StatusFields : snap[f] # NotRead
    /\ \/ /\ faults < MaxFaults
          /\ faults' = faults + 1
          /\ pcStatus' = "panic" /\ ProcessEnds
          /\ UNCHANGED kv
       \/ /\ kv' = snap
          /\ pcStatus' = "select"
          /\ UNCHANGED <<faults, alive>>
    /\ UNCHANGED <<inputVars, libVars, requireToken, started, readerVars, chans, closed, pcw, cur,
                   counters, bus, sendFailed, producerOpen, snap>>

(* ---- the template cache ------------------------------------------------ *)
\* The keys of the cache: (name, service, locale).
Keys ==
    {<<"test_cached_template1", "gcm", "en">>,
     <<"test_cached_template1", "gcm", "pt">>}

Callers == 1..MaxCallers

NoCaller == 0
Never == -1

\* tc := templates.CreateTemplateCache(1): the TTL, in seconds.
CacheTTL == 1

\* The templates put in the cache: a template is its body and its defaults.
\* Caller c puts its own version of a template, with body c and defaults c.
TemplateOf(c) == [body |-> c, defaults |-> c]

Templates == {TemplateOf(c) : c \in Callers}

NilTemplate == [body |-> 0, defaults |-> 0]

NoEntry == [body |-> 0, defaults |-> 0, at |-> Never]

IdleCall == [pc |-> "idle", key |-> <<>>, tpl |-> NilTemplate]

\* The cache after CreateTemplateCache: no entry, nobody in a call.
CreateTemplateCache ==
    /\ tcEntries = [k \in Keys |-> NoEntry]
    /\ tcMutex = NoCaller
    /\ tcClock = 0
    /\ tcCalls = [c \in Callers |-> IdleCall]
    /\ tcFound = [key |-> <<>>, tpl |-> NilTemplate]
    /\ tcLastPut = [k \in Keys |-> [tpl |-> NilTemplate, at |-> Never]]

\* An entry that still counts after exactly the TTL.
Expired_Strict(at, now) == now - at > CacheTTL

\* An entry stored at `at` is expired at `now`: the TTL has elapsed.
Expired(at, now) == now - at >= CacheTTL

\* tc.AddTemplate(l, name, service, locale, template) is called.
AddTemplate(c, k, t) ==
    /\ tcCalls[c].pc = "idle"
    /\ tcCalls' = [tcCalls EXCEPT ![c] = [pc |-> "lock", key |-> k, tpl |-> t]]
    /\ UNCHANGED <<workerVars, renderVars, parseVars, dbVars, tcEntries, tcMutex, tcClock,
                   tcFound, tcLastPut>>

\* AddTemplate entering without waiting for the lock.
AddTemplate_Lock_NoWait(c) ==
    /\ tcCalls[c].pc = "lock"
    /\ tcMutex' = c
    /\ tcEntries' = [tcEntries EXCEPT ![tcCalls[c].key].body = tcCalls[c].tpl.body]
    /\ tcCalls' = [tcCalls EXCEPT ![c].pc = "store"]
    /\ UNCHANGED <<workerVars, renderVars, parseVars, dbVars, tcClock, tcFound, tcLastPut>>

\* AddTemplate takes the lock of the cache and starts to write the entry.
AddTemplate_Lock(c) ==
    /\ tcCalls[c].pc = "lock"
    /\ tcMutex = NoCaller
    /\ tcMutex' = c
    /\ tcEntries' = [tcEntries EXCEPT ![tcCalls[c].key].body = tcCalls[c].tpl.body]
    /\ tcCalls' = [tcCalls EXCEPT ![c].pc = "store"]
    /\ UNCHANGED <<workerVars, renderVars, parseVars, dbVars, tcClock, tcFound, tcLastPut>>

\* AddTemplate completes the entry with its insertion time, releases the
\* lock and returns.
AddTemplate_Store(c) ==
    /\ tcCalls[c].pc = "store"
    /\ tcEntries' = [tcEntries EXCEPT
                       ![tcCalls[c].key].defaults = tcCalls[c].tpl.defaults,
                       ![tcCalls[c].key].at = tcClock]
    /\ tcLastPut' = [tcLastPut EXCEPT
                       ![tcCalls[c].key] = [tpl |-> tcCalls[c].tpl, at |-> tcClock]]
    /\ tcMutex' = NoCaller
    /\ tcCalls' = [tcCalls EXCEPT ![c] = IdleCall]
    /\ UNCHANGED <<workerVars, renderVars, parseVars, dbVars, tcClock, tcFound>>

\* tc.FindTemplate(l, name, service, locale): nil for a key without entry or
\* with an expired entry (which is removed), else the template stored.
FindTemplate(c, k) ==
    /\ tcCalls[c].pc = "idle"
    /\ tcMutex = NoCaller
    /\ IF tcEntries[k].at = Never \/ Expired(tcEntries[k].at, tcClock)
       THEN /\ tcFound' = [key |-> k, tpl |-> NilTemplate]
            /\ tcEntries' = [tcEntries EXCEPT ![k] = NoEntry]
       ELSE /\ tcFound' = [key |-> k,
                           tpl |-> [body |-> tcEntries[k].body,
                                    defaults |-> tcEntries[k].defaults]]
            /\ UNCHANGED tcEntries
    /\ UNCHANGED <<workerVars, renderVars, parseVars, dbVars, tcMutex, tcClock, tcCalls, tcLastPut>>

\* Time passes (time.Sleep in a caller).
Tick ==
    /\ tcClock < MaxTime
    /\ tcClock' = tcClock + 1
    /\ UNCHANGED <<workerVars, renderVars, parseVars, dbVars, tcEntries, tcMutex, tcCalls, tcFound,
                   tcLastPut>>

(* ---- rendering (Fetcher's merged context, BuildMessageFromTemplate) ---- *)
\* The variables a template body refers to.
TemplateVars == {"user_name", "object_name"}

\* The value each source holds for a variable it has.
DefaultValue(v) == IF v = "user_name" THEN "Someone" ELSE "village"

ContextValue(v) == IF v = "user_name" THEN "Camila" ELSE "building"

UserValue(v) == IF v = "user_name" THEN "Maria" ELSE "castle"

\* The template's Defaults, the job's context and the per-user values: each
\* holds any subset of the variables.
DefaultsMaps == {[v \in D |-> DefaultValue(v)] : D \in SUBSET TemplateVars}

ContextMaps == {[v \in D |-> ContextValue(v)] : D \in SUBSET TemplateVars}

UserMaps == {[v \in D |-> UserValue(v)] : D \in SUBSET TemplateVars}

\* A body is a sequence of tokens: literal text, or a {{var}} placeholder.
Tokens ==
    {[kind |-> "var", s |-> v] : v \in TemplateVars} \cup
    {[kind |-> "text", s |-> " just liked your "]}

Bodies == UNION {[1..n -> Tokens] : n \in 0..MaxBody}

\* The text of the placeholder of a variable.
Placeholder(v) == "{{" \o v \o "}}"

NoTemplate == [body |-> <<>>, defaults |-> <<>>]

\* No record is in the Fetcher or the Builder.
NothingToRender ==
    /\ template = NoTemplate
    /\ context = <<>>
    /\ userData = <<>>
    /\ merged = <<>>
    /\ msg = <<>>
    /\ unresolved = 0
    /\ pcRender = "off"

\* a overridden by b: the right-hand side wins.
Override(a, b) ==
    [v \in DOMAIN a \cup DOMAIN b |-> IF v \in DOMAIN b THEN b[v] ELSE a[v]]

\* A merge in which the job's context wins over the per-user values.
MergedContext_JobWins(ctx, user) == Override(user, ctx)

\* The context delivered downstream: job.context overridden by the per-user
\* values.
MergedContext(ctx, user) == Override(ctx, user)

\* A substitution that leaves the placeholder of an unknown variable.
Substitute_KeepPlaceholder(v, defaults, ctx) ==
    IF v \in DOMAIN ctx THEN ctx[v]
    ELSE IF v \in DOMAIN defaults THEN defaults[v]
    ELSE Placeholder(v)

\* The text that replaces {{v}}: the context's value, else the template's
\* default, else the empty string.
Substitute(v, defaults, ctx) ==
    IF v \in DOMAIN ctx THEN ctx[v]
    ELSE IF v \in DOMAIN defaults THEN defaults[v]
    ELSE ""

\* worker.BuildMessageFromTemplate(template, context): every token of the
\* body, with each placeholder substituted.
BuildMessageFromTemplate(tpl, ctx) ==
    [i \in 1..Len(tpl.body) |->
        IF tpl.body[i].kind = "var"
        THEN Substitute(tpl.body[i].s, tpl.defaults, ctx)
        ELSE tpl.body[i].s]

\* The placeholders of the body that neither the context nor the defaults
\* resolve.
UnresolvedVariables(tpl, ctx) ==
    {i \in 1..Len(tpl.body) :
        /\ tpl.body[i].kind = "var"
        /\ tpl.body[i].s \notin DOMAIN ctx \cup DOMAIN tpl.defaults}

\* Fetcher: the template is resolved and the contexts are merged.
Fetcher_Merge ==
    /\ pcRender = "fetch"
    /\ merged' = MergedContext(context, userData)
    /\ pcRender' = "build"
    /\ UNCHANGED <<workerVars, cacheVars, parseVars, dbVars, template, context, userData, msg,
                   unresolved>>

\* Builder: the message is rendered.
Builder_Build ==
    /\ pcRender = "build"
    /\ msg' = BuildMessageFromTemplate(template, merged)
    /\ unresolved' = unresolved + Cardinality(UnresolvedVariables(template, merged))
    /\ pcRender' = "done"
    /\ UNCHANGED <<workerVars, cacheVars, parseVars, dbVars, template, context, userData, merged>>

(* ---- the job array (ParseProcessBatchWorkerMessageArray) --------------- *)
\* arr is: jobId, appName, service, template, context, metadata, users,
\* expiresAt.
MessageArrayLen == 8

JobIDs == {"6ba7b810-9dad-11d1-80b4-00c04fd430c8", "some-string", ""}

AppNames == {"6ba7b810", "00c04fd4"}

UsersLists == {[i \in 1..n |-> [user_id |-> i, token |-> i]] : n \in 0..MaxUsers}

\* An array of one element more than required, to cut job arrays from.
LongArray(j, a, u) ==
    <<j, a, "gcm", "templateObj", "context", "metadata", u, 0, 0>>

\* The job arrays: every length from 0 to one more than required.
MessageArrays ==
    {SubSeq(LongArray(j, a, u), 1, n) :
        j \in JobIDs, a \in AppNames, u \in UsersLists,
        n \in 0..(MessageArrayLen + 1)}

InvalidMessageArray == "InvalidMessageArray"

NoError == ""

\* The message pointer returned: nil, or one message.
NilMessage == <<>>

NotCalled == [msg |-> NilMessage, err |-> "not called"]

\* No job array is being parsed.
NothingToParse ==
    /\ arr = <<>>
    /\ parsed = NotCalled

\* uuid.FromString: the error for a text shorter than a UUID.
UUIDFromStringError(text) ==
    IF Len(text) < 32 THEN "uuid: UUID string too short" ELSE NoError

\* A parse that only refuses arrays that are too short.
ParseProcessBatchWorkerMessageArray_AtLeast(a) ==
    IF Len(a) < MessageArrayLen
    THEN [msg |-> NilMessage, err |-> InvalidMessageArray]
    ELSE IF UUIDFromStringError(a[1]) # NoError
    THEN [msg |-> NilMessage, err |-> UUIDFromStringError(a[1])]
    ELSE IF Len(a[7]) = 0
    THEN [msg |-> NilMessage, err |-> "there must be at least one user"]
    ELSE [msg |-> <<[JobID |-> a[1], AppName |-> a[2], Service |-> a[3],
                     Users |-> a[7], ExpiresAt |-> a[8]]>>,
          err |-> NoError]

\* worker.ParseProcessBatchWorkerMessageArray(arr): the message and the
\* error it returns.
ParseProcessBatchWorkerMessageArray(a) ==
    IF Len(a) # MessageArrayLen
    THEN [msg |-> NilMessage, err |-> InvalidMessageArray]
    ELSE IF UUIDFromStringError(a[1]) # NoError
    THEN [msg |-> NilMessage, err |-> UUIDFromStringError(a[1])]
    ELSE IF Len(a[7]) = 0
    THEN [msg |-> NilMessage, err |-> "there must be at least one user"]
    ELSE [msg |-> <<[JobID |-> a[1], AppName |-> a[2], Service |-> a[3],
                     Users |-> a[7], ExpiresAt |-> a[8]]>>,
          err |-> NoError]

\* The call of ParseProcessBatchWorkerMessageArray on the job array.
ParseMessageArray ==
    /\ parsed = NotCalled
    /\ parsed' = ParseProcessBatchWorkerMessageArray(arr)
    /\ UNCHANGED <<workerVars, cacheVars, renderVars, dbVars, arr>>

(* ---- one Parser on its own -------------------------------------------- *)
ParserWorker == <<"parser", 1>>

\* The raw records a Parser may be sent: with a token, without, undecodable.
RawRecords == {1, EmptyToken, Undecodable}

\* go templates.Parser(l, requireToken, inChan, outChan, doneChan), with
\* either value of requireToken.
Parser_Go(rt) ==
    /\ ~started
    /\ started' = TRUE
    /\ requireToken' = rt
    /\ pcw' = [pcw EXCEPT ![ParserWorker] = "recv"]
    /\ UNCHANGED <<inputVars, libVars, alive, faults, readerVars, chans, closed,
                   cur, counters, bus, sendFailed, producerOpen, statusVars>>

\* The records that have been sent to the Parser so far.
ParserRecords ==
    Len(chans["PgToParserChan"]) + Len(chans["ParserToFetcherChan"])
        + (IF pcw[ParserWorker] = "send" THEN 1 ELSE 0)
        + counters["ParserSkipped"] + counters["ParserError"]

\* A raw record is sent on the Parser's input channel.
Parser_Feed(x) ==
    /\ Running /\ pcReader = "off"
    /\ ParserRecords < MaxTokens
    /\ Len(chans["PgToParserChan"]) < Cap("PgToParserChan")
    /\ chans' = [chans EXCEPT !["PgToParserChan"] = Append(@, x)]
    /\ UNCHANGED <<inputVars, libVars, started, requireToken, alive, faults,
                   readerVars, closed, pcw, cur, counters, bus, sendFailed,
                   producerOpen, statusVars>>

(* ---- models.GetDB ----------------------------------------------------- *)
\* The connection arguments (host, user, port, sslmode, dbName, password)
\* of a call, as one value.
ConnArgs == 1..MaxConnArgs

\* var _db DB: the nil interface value.
NilDB == [conn |-> 0, id |-> 0]

\* The error of a GetDB whose InitDb failed.
InitDbError == "sql: open failed"

NeverCalled == [args |-> 0, db |-> NilDB, err |-> "not called"]

\* The package as loaded: no handle, GetDB not called yet.
NotConnected ==
    /\ _db = NilDB
    /\ initCalls = 0
    /\ getCalls = 0
    /\ got = NeverCalled
    /\ firstDB = NilDB

\* InitDb(host, user, port, sslmode, dbName, password) when sql.Open
\* succeeds: a new DbMap on the connection string made of the arguments;
\* n tells the DbMaps of different calls apart.
InitDb(a, n) == [conn |-> a, id |-> n]

\* A GetDB that connects again when the arguments are not those of the
\* handle it keeps.
GetDB_PerArgs(a) ==
    /\ getCalls < MaxGetDB
    /\ getCalls' = getCalls + 1
    /\ IF _db = NilDB \/ _db.conn # a
       THEN /\ initCalls' = initCalls + 1
            /\ \/ /\ _db' = InitDb(a, initCalls + 1)
                  /\ got' = [args |-> a, db |-> _db', err |-> NoError]
               \/ /\ _db' = NilDB
                  /\ got' = [args |-> a, db |-> NilDB, err |-> InitDbError]
       ELSE /\ UNCHANGED <<_db, initCalls>>
            /\ got' = [args |-> a, db |-> _db, err |-> NoError]
    /\ firstDB' = IF firstDB = NilDB THEN got'.db ELSE firstDB
    /\ UNCHANGED <<workerVars, cacheVars, renderVars, parseVars>>

\* GetDB(host, user, ...): if _db == nil { _db, err = InitDb(...); if err !=
\* nil { _db = nil; return nil, err } }; return _db, nil
GetDB(a) ==
    /\ getCalls < MaxGetDB
    /\ getCalls' = getCalls + 1
    /\ IF _db = NilDB
       THEN /\ initCalls' = initCalls + 1
            /\ \/ /\ _db' = InitDb(a, initCalls + 1)
                  /\ got' = [args |-> a, db |-> _db', err |-> NoError]
               \/ /\ _db' = NilDB
                  /\ got' = [args |-> a, db |-> NilDB, err |-> InitDbError]
       ELSE /\ UNCHANGED <<_db, initCalls>>
            /\ got' = [args |-> a, db |-> _db, err |-> NoError]
    /\ firstDB' = IF firstDB = NilDB THEN got'.db ELSE firstDB
    /\ UNCHANGED <<workerVars, cacheVars, renderVars, parseVars>>

(* ---- the system ------------------------------------------------------- *)
\* The worker with an empty template cache and no record being rendered.
Configured ==
    /\ WorkerConfigured
    /\ CreateTemplateCache
    /\ NothingToRender
    /\ NothingToParse
    /\ NotConnected

Init ==
    /\ config \in ConfigFiles
    /\ db \in Stores
    /\ modifiers \in ModifierLists
    /\ jobKind \in JobKinds
    /\ Configured

ReaderNext ==
    \/ pgReader_Limit
    \/ pgReader_Count
    \/ pgReader_Pages
    \/ pgReader_Page
    \/ pgReader_Loop
    \/ pgReader_Marshal
    \/ pgReader_Send
    \/ \E r \in Workers : pgReader_SendDirect(r)

StageNext(w) ==
    \/ Recv(w)
    \/ StageSend(w)
    \/ \E r \in Workers : StageSendDirect(w, r)
    \/ Producer_Init(w)
    \/ Producer_SendMessage(w)

DoneNext(w) ==
    \/ StageDone(w)
    \/ Producer_Done(w)

StatusNext ==
    \/ updateStatus
    \/ \E f \in StatusFields : GetStatus(f)
    \/ SetStatus

\* The pipeline: pgReader, the template stages and the producers.
Next ==
    \/ Start
    \/ ReaderNext
    \/ \E w \in Workers : StageNext(w)

Spec == Init /\ [][Next]_vars

\* pgReader, the status updater and the done signal, with a channel that
\* holds every record of the job and no consumer.
InitStatus ==
    /\ config = ConfigFile(2 * MaxTokens, 0, 0)
    /\ db \in Stores
    /\ modifiers \in ModifierLists
    /\ jobKind = "ok"
    /\ Configured

NextStatus ==
    \/ Start
    \/ pgReader_Limit
    \/ pgReader_Count
    \/ pgReader_Pages
    \/ pgReader_Page
    \/ pgReader_Loop
    \/ pgReader_Marshal
    \/ pgReader_Send
    \/ StatusNext
    \/ Cancel

SpecStatus == InitStatus /\ [][NextStatus]_vars

\* The pipeline with the cancellation signal, under the scheduling of the Go
\* runtime: a goroutine that can take a step eventually takes one.
InitCancel ==
    /\ config \in {ConfigFile(0, 1, 1), ConfigFile(QueueCap, 1, 1)}
    /\ db \in {st \in Stores : Len(st) <= CancelTokens}
    /\ modifiers \in ModifierLists
    /\ jobKind = "ok"
    /\ Configured

NextCancel ==
    \/ Start
    \/ ReaderNext
    \/ \E w \in Workers : StageNext(w)
    \/ \E w \in Workers : DoneNext(w)
    \/ Cancel

FairSpec ==
    /\ InitCancel /\ [][NextCancel]_vars
    /\ WF_vars(Start)
    /\ WF_vars(ReaderNext)
    /\ \A w \in Workers : WF_vars(StageNext(w) \/ DoneNext(w))

\* The pipeline as it runs when no channel size is configured: every data
\* channel is unbuffered (make(chan string, 0)), one goroutine per stage,
\* with the cancellation signal and the scheduling of the Go runtime.
InitDirect ==
    /\ config = ConfigFile(0, 1, 1)
    /\ db \in {st \in Stores : Len(st) <= CancelTokens}
    /\ modifiers \in ModifierLists
    /\ jobKind = "ok"
    /\ Configured

ReaderDirectNext ==
    \/ pgReader_Limit
    \/ pgReader_Count
    \/ pgReader_Pages
    \/ pgReader_Page
    \/ pgReader_Loop
    \/ pgReader_Marshal
    \/ \E r \in Workers : pgReader_SendDirect(r)

StageDirectNext(w) ==
    \/ \E r \in Workers : StageSendDirect(w, r)
    \/ Producer_Init(w)
    \/ Producer_SendMessage(w)
    \/ StageDone(w)
    \/ Producer_Done(w)

NextDirect ==
    \/ Start
    \/ ReaderDirectNext
    \/ \E w \in Workers : StageDirectNext(w)
    \/ Cancel

FairDirectSpec ==
    /\ InitDirect /\ [][NextDirect]_vars
    /\ WF_vars(Start)
    /\ WF_vars(ReaderDirectNext)
    /\ \A w \in Workers : WF_vars(StageDirectNext(w))

\* Goroutines calling one template cache while time passes.
NoJob ==
    /\ config = EmptyConfigFile
    /\ db = <<>>
    /\ modifiers = <<>>
    /\ jobKind = "ok"

InitCache ==
    /\ NoJob
    /\ Configured

NextCache ==
    \/ \E c \in Callers, k \in Keys : AddTemplate(c, k, TemplateOf(c))
    \/ \E c \in Callers : AddTemplate_Lock(c)
    \/ \E c \in Callers : AddTemplate_Store(c)
    \/ \E c \in Callers, k \in Keys : FindTemplate(c, k)
    \/ Tick

SpecCache == InitCache /\ [][NextCache]_vars

\* One record rendered, for every template, context and per-user values.
InitRender ==
    /\ NoJob
    /\ WorkerConfigured
    /\ CreateTemplateCache
    /\ template \in [body : Bodies, defaults : DefaultsMaps]
    /\ context \in ContextMaps
    /\ userData \in UserMaps
    /\ merged = <<>>
    /\ msg = <<>>
    /\ unresolved = 0
    /\ pcRender = "fetch"
    /\ NothingToParse
    /\ NotConnected

NextRender ==
    \/ Fetcher_Merge
    \/ Builder_Build

SpecRender == InitRender /\ [][NextRender]_vars

\* One call of ParseProcessBatchWorkerMessageArray, for every job array.
InitParseArray ==
    /\ NoJob
    /\ WorkerConfigured
    /\ CreateTemplateCache
    /\ NothingToRender
    /\ arr \in MessageArrays
    /\ parsed = NotCalled
    /\ NotConnected

NextParseArray == ParseMessageArray

SpecParseArray == InitParseArray /\ [][NextParseArray]_vars

\* One Parser, started with either value of requireToken and sent every
\* sequence of up to MaxTokens raw records; nobody reads its output channel,
\* which holds them all.
InitParser ==
    /\ config = ConfigFile(2 * MaxTokens, 0, 0)
    /\ db = <<>>
    /\ modifiers = <<>>
    /\ jobKind = "ok"
    /\ Configured

NextParser ==
    \/ \E rt \in BOOLEAN : Parser_Go(rt)
    \/ \E x \in RawRecords : Parser_Feed(x)
    \/ Recv(ParserWorker)
    \/ StageSend(ParserWorker)

SpecParser == InitParser /\ [][NextParser]_vars

\* The calls of GetDB made one after the other, with any arguments.
InitGetDB ==
    /\ NoJob
    /\ Configured

NextGetDB == \E a \in ConnArgs : GetDB(a)

SpecGetDB == InitGetDB /\ [][NextGetDB]_vars

(* ---- properties ------------------------------------------------------- *)
\* pgReader has left its function (return) or the process has ended.
ReaderExited == pcReader \in {"returned", "failed", "fatal", "panic"}

\* Every goroutine Start spawned for the stages has returned.
WorkersExited == \A w \in Workers : pcw[w] \in {"off", "exit"}

\* Nothing is in flight: pgReader has returned normally, the channels are
\* empty and no worker holds an item.
Quiescent ==
    /\ pcReader = "returned"
    /\ \A i \in 1..4 : chans[DataChans[i]] = <<>>
    /\ \A w \in Workers : cur[w] = NoItem

\* The records dropped under a counter.
CountedDrops ==
    counters["ParserSkipped"] + counters["ParserError"]
        + counters["TemplateMissing"] + counters["Expired"]

\* The batch queries issued so far, in order.
BatchQueries == SelectSeq(queries, LAMBDA q : q.kind = "batch")

CeilDiv(a, b) == (a + b - 1) \div b

\* C1: every JobProgress counter is non-decreasing over every step of a run.
C1_CountersMonotonic ==
    [][/\ TotalTokens' >= TotalTokens
       /\ ProcessedTokens' >= ProcessedTokens
       /\ TotalPages' >= TotalPages
       /\ ProcessedPages' >= ProcessedPages]_vars

\* C2: processedTokens <= totalTokens in every state of the worker and in
\* every status that GetStatus builds and SetStatus stores.
C2_ProcessedWithinTotal ==
    /\ ProcessedTokens <= TotalTokens
    /\ kv # NoStatus => kv["processedTokens"] <= kv["totalTokens"]

\* C3: at the end of a run every record read was delivered or dropped under
\* a counter, and delivered + dropped = totalTokens.
C3_Conservation ==
    Quiescent =>
        /\ sendFailed = 0
        /\ Len(bus) + CountedDrops = TotalTokens

\* C4: a run without failures delivers each matching token exactly once and
\* ends with processedTokens = T and processedPages = totalPages.
C4_EndToEndExpansion ==
    (Quiescent /\ faults = 0 /\ jobKind = "ok") =>
        /\ Len(bus) = Len(db)
        /\ {bus[i] : i \in 1..Len(bus)} = {db[i] : i \in 1..Len(db)}
        /\ ProcessedTokens = Len(db)
        /\ ProcessedPages = TotalPages

\* C5: once pgReader has computed it, totalPages = ceil(totalTokens / limit).
C5_TotalPagesCeil ==
    pcReader \in {"page", "loop", "marshal", "send", "returned", "failed"} =>
        TotalPages = CeilDiv(TotalTokens, limit)

\* C6: the batch query of page p is issued with the job's limit and with
\* offset p * limit.
C6_OffsetPagination ==
    \A p \in 0..(Len(BatchQueries) - 1) :
        /\ BatchQueries[p + 1].limit = limit
        /\ BatchQueries[p + 1].offset = p * limit

\* C7: once pgReader has returned, normally or on a failure, its output
\* channel is closed.
C7_ReaderClosesOut ==
    pcReader \in {"returned", "failed"} => "PgToParserChan" \in closed

\* C8: once pgReader has finished, every stage worker eventually stops.
C8_TerminationCascade ==
    (pcReader = "returned") ~> (~alive \/ WorkersExited)

\* C9: once the done signal is raised, pgReader and every stage worker
\* eventually exit.
C9_CancellationExits ==
    (closed # {}) ~> (~alive \/ (ReaderExited /\ WorkersExited))

\* The modifiers hold no LIMIT entry, or a LIMIT <= 0.
NoValidLimit ==
    \A i \in 1..Len(modifiers) :
        modifiers[i].op = "LIMIT" => modifiers[i].arg <= 0

\* C10: with no LIMIT or a LIMIT <= 0 pgReader ends the process before the
\* count query, before totalTokens and totalPages are set and before any
\* record is produced.
C10_InvalidLimitFatal ==
    NoValidLimit =>
        /\ pcReader \in {"off", "limit", "fatal"}
        /\ pcReader = "fatal" => ~alive
        /\ queries = <<>>
        /\ TotalTokens = 0 /\ TotalPages = 0
        /\ ProcessedTokens = 0
        /\ \A i \in 1..4 : chans[DataChans[i]] = <<>>
        /\ \A w \in Workers : cur[w] = NoItem
        /\ bus = <<>>

C10_Witness ==
    /\ NoValidLimit
    /\ pcReader = "fatal"
    /\ ~alive

\* C11: pgReader stops on a failed batch query only after the query of that
\* page has been issued 3 times (the default number of attempts).
C11_BatchFetchRetried ==
    [][(pcReader = "page" /\ pcReader' = "failed") =>
          Len(BatchQueries') - ProcessedPages >= 3]_vars

\* C12: a failure on one record (json.Marshal of the message of one user
\* token) does not end pgReader: it goes on with the records that follow.
C12_RecordErrorNotFatal ==
    [][pcReader = "marshal" => pcReader' \in {"marshal", "send", "loop"}]_vars

\* C13: when the status updater exits on its done signal, the status stored
\* in redis holds the counters as they are at that moment.
C13_FinalStatusWrite ==
    [][(pcStatus = "select" /\ pcStatus' = "exit") =>
          kv' = [f \in StatusFields |-> StatusField(f)]]_vars

\* C14: after a failed SetStatus the status updater goes back to its loop
\* and the process lives on.
C14_StatusFailureNotFatal ==
    [][(pcStatus = "read" /\ pcStatus' # "read" /\ faults' > faults) =>
          (pcStatus' = "select" /\ alive')]_vars

\* C15: the first failure of SendMessage does not drop the message: the
\* Producer still holds it for another attempt.
C15_SendRetried ==
    [][(sendFailed = 0 /\ sendFailed' = 1) =>
          \E w \in Workers :
              /\ pcw[w] = "send" /\ pcw'[w] = "send"
              /\ cur'[w] = cur[w] /\ cur[w] # NoItem]_vars

\* The Producer goroutines.
Producers == {w \in Workers : w[1] = "producer"}

\* C16: once done is signalled every Producer eventually exits; a Producer
\* that has exited holds no message it received and not yet handed to
\* SendMessage, and its kafka connection is closed.
C16_ProducerStops ==
    /\ [](\A w \in Producers :
              pcw[w] = "exit" => (cur[w] = NoItem /\ w \notin producerOpen))
    /\ ("ProducerDoneChan" \in closed) ~>
           (~alive \/ \A w \in Producers : pcw[w] \in {"off", "exit"})

C16_Witness ==
    /\ "ProducerDoneChan" \in closed
    /\ pcw[<<"producer", 1>>] = "exit"
    /\ bus # <<>>
    /\ alive

\* What FindTemplate of key k is to return now, by the history of the puts.
ExpectedFind(k) ==
    IF tcLastPut[k].at = Never \/ tcClock - tcLastPut[k].at >= CacheTTL
    THEN NilTemplate
    ELSE tcLastPut[k].tpl

C18_NoTornEntry ==
    /\ tcFound.tpl \in Templates \cup {NilTemplate}
    /\ tcMutex = NoCaller =>
           \A k \in Keys :
               \/ tcEntries[k] = NoEntry
               \/ /\ tcEntries[k].at = tcLastPut[k].at
                  /\ [body |-> tcEntries[k].body,
                      defaults |-> tcEntries[k].defaults] = tcLastPut[k].tpl
                  /\ tcLastPut[k].tpl \in Templates

\* Two AddTemplate calls of one key with different templates are in
\* progress, one inside the lock and one waiting for it, after a
\* FindTemplate of the key returned a template.
C18_Witness ==
    \E c \in Callers, d \in Callers :
        /\ tcCalls[c].pc = "store"
        /\ tcCalls[d].pc = "lock"
        /\ tcCalls[c].key = tcCalls[d].key
        /\ tcCalls[c].tpl # tcCalls[d].tpl
        /\ tcFound.key = tcCalls[c].key
        /\ tcFound.tpl \in Templates

\* The value the claim gives a variable: per-user, else context, else
\* default, else the empty string.
ByPrecedence(v) ==
    IF v \in DOMAIN userData THEN userData[v]
    ELSE IF v \in DOMAIN context THEN context[v]
    ELSE IF v \in DOMAIN template.defaults THEN template.defaults[v]
    ELSE ""

\* C19: every placeholder of the body is replaced by the per-user value if
\* there is one, else by the job context's, else by the template's default.
C19_RenderingPrecedence ==
    pcRender = "done" =>
        /\ Len(msg) = Len(template.body)
        /\ \A i \in 1..Len(template.body) :
               template.body[i].kind = "var" =>
                   msg[i] = ByPrecedence(template.body[i].s)

\* A message was built from a body with two placeholders: one variable has
\* a per-user value, a context value and a default, the other only a
\* context value and a default.
C19_Witness ==
    /\ pcRender = "done"
    /\ \E i, j \in 1..Len(template.body) :
           /\ template.body[i].kind = "var" /\ template.body[j].kind = "var"
           /\ template.body[i].s \in
                  DOMAIN userData \cap DOMAIN context \cap DOMAIN template.defaults
           /\ template.body[j].s \in
                  (DOMAIN context \cap DOMAIN template.defaults) \ DOMAIN userData
           /\ msg[i] = UserValue(template.body[i].s)
           /\ msg[j] = ContextValue(template.body[j].s)

\* C20: no piece of a built message is a {{var}} placeholder: a variable
\* that neither the context nor the defaults hold is replaced by the empty
\* string and counted in UnresolvedVariable, and the message is built.
C20_NoPlaceholderLeft ==
    pcRender = "done" =>
        /\ Len(msg) = Len(template.body)
        /\ \A i \in 1..Len(msg) :
               /\ msg[i] \notin {Placeholder(v) : v \in TemplateVars}
               /\ (/\ template.body[i].kind = "var"
                   /\ template.body[i].s \notin
                          DOMAIN userData \cup DOMAIN context
                              \cup DOMAIN template.defaults)
                  => msg[i] = ""
        /\ unresolved =
               Cardinality({i \in 1..Len(template.body) :
                   /\ template.body[i].kind = "var"
                   /\ template.body[i].s \notin
                          DOMAIN userData \cup DOMAIN context
                              \cup DOMAIN template.defaults})

\* A message was built from a body with a placeholder that no source
\* resolves.
C20_Witness ==
    /\ pcRender = "done"
    /\ unresolved > 0
    /\ \E i \in 1..Len(msg) : template.body[i].kind = "var" /\ msg[i] = ""

\* The job id of the array is a UUID.
JobIDIsUUID == arr[1] = "6ba7b810-9dad-11d1-80b4-00c04fd430c8"

\* C21: ParseProcessBatchWorkerMessageArray returns no message and
\* InvalidMessageArray for an array of any length but 8, "there must be at
\* least one user" for an array of 8 with an empty users list, and the uuid
\* error for an array of 8 whose job id is not a UUID (one of the two errors
\* when the array has both defects).
C21_InvalidArraysRejected ==
    parsed # NotCalled =>
        /\ Len(arr) # 8 =>
               parsed = [msg |-> NilMessage, err |-> InvalidMessageArray]
        /\ (Len(arr) = 8 /\ JobIDIsUUID /\ arr[7] = <<>>) =>
               parsed = [msg |-> NilMessage,
                         err |-> "there must be at least one user"]
        /\ (Len(arr) = 8 /\ ~JobIDIsUUID /\ arr[7] # <<>>) =>
               parsed = [msg |-> NilMessage,
                         err |-> "uuid: UUID string too short"]
        /\ (Len(arr) = 8 /\ ~JobIDIsUUID /\ arr[7] = <<>>) =>
               /\ parsed.msg = NilMessage
               /\ parsed.err \in {"uuid: UUID string too short",
                                  "there must be at least one user"}

\* An array of 8 elements with a UUID job id and an empty users list has
\* been refused.
C21_Witness ==
    /\ parsed = [msg |-> NilMessage, err |-> "there must be at least one user"]
    /\ Len(arr) = 8
    /\ JobIDIsUUID
    /\ arr[7] = <<>>

\* The Parser takes the head of its input channel in this step.
ParserReceives ==
    /\ pcw[ParserWorker] = "recv"
    /\ chans["PgToParserChan"] # <<>>
    /\ chans'["PgToParserChan"] = Tail(chans["PgToParserChan"])

\* C22: the Parser drops a record without a token under ParserSkipped
\* exactly when requireToken is set, drops a record that does not decode
\* under ParserError, forwards every other record unchanged, and goes on
\* receiving after every record.
C22_ParserContract ==
    [][/\ ParserReceives =>
            LET x == Head(chans["PgToParserChan"]) IN
            IF x = Undecodable
            THEN /\ counters' = [counters EXCEPT !["ParserError"] = @ + 1]
                 /\ pcw'[ParserWorker] = "recv"
                 /\ chans'["ParserToFetcherChan"] = chans["ParserToFetcherChan"]
            ELSE IF x = EmptyToken /\ requireToken
            THEN /\ counters' = [counters EXCEPT !["ParserSkipped"] = @ + 1]
                 /\ pcw'[ParserWorker] = "recv"
                 /\ chans'["ParserToFetcherChan"] = chans["ParserToFetcherChan"]
            ELSE /\ counters' = counters
                 /\ pcw'[ParserWorker] = "send"
                 /\ cur'[ParserWorker] = x
       /\ (pcw[ParserWorker] = "send" /\ pcw'[ParserWorker] # "send") =>
            /\ chans'["ParserToFetcherChan"] =
                   Append(chans["ParserToFetcherChan"], cur[ParserWorker])
            /\ pcw'[ParserWorker] = "recv"
       /\ pcw[ParserWorker] \in {"recv", "send"} =>
            pcw'[ParserWorker] \in {"recv", "send"}]_vars

\* A Parser started with requireToken has skipped a record without a token,
\* dropped one that does not decode, and forwarded a third.
C22_Witness ==
    /\ requireToken
    /\ counters["ParserSkipped"] = 1
    /\ counters["ParserError"] = 1
    /\ chans["ParserToFetcherChan"] = <<1>>
    /\ pcw[ParserWorker] = "recv"

\* A send on channel c cannot proceed: its buffer is full or, for an
\* unbuffered channel, no goroutine is waiting to receive from it.
Blocked(c) ==
    IF Cap(c) = 0
    THEN ~\E r \in Workers : InChan(r[1]) = c /\ WaitingRecv(r)
    ELSE Len(chans[c]) = Cap(c)

\* No Producer is consuming: each has returned or was never started.
ProducersStopped ==
    \A w \in Workers : w[1] = "producer" => pcw[w] \in {"off", "exit"}

\* No Producer consumes and pgReader and every running stage worker hold a
\* record that they cannot send.
ChainFull ==
    /\ Running
    /\ ProducersStopped
    /\ pcReader = "send" /\ Blocked("PgToParserChan")
    /\ \A w \in Workers :
           (w[1] # "producer" /\ pcw[w] # "off") =>
               (pcw[w] = "send" /\ Blocked(OutChan(w[1])))

\* C23: no data channel ever holds more than its capacity; a sender whose
\* channel is blocked keeps its record and does not advance; and once no
\* Producer consumes and every channel is blocked, pgReader emits nothing
\* more: no step is possible.
C23_Backpressure ==
    /\ [](\A i \in 1..4 : Len(chans[DataChans[i]]) <= Cap(DataChans[i]))
    /\ [](ChainFull => ~ENABLED Next)
    /\ [][/\ (pcReader = "send" /\ Blocked("PgToParserChan")) =>
               /\ pcReader' = "send"
               /\ message' = message
               /\ ProcessedTokens' = ProcessedTokens
               /\ Len(chans'["PgToParserChan"]) <= Len(chans["PgToParserChan"])
          /\ \A w \in Workers :
               (w[1] # "producer" /\ pcw[w] = "send" /\ Blocked(OutChan(w[1])))
                   => (pcw'[w] = "send" /\ cur'[w] = cur[w])]_vars

\* The Producer has returned, each stage worker holds a record it cannot
\* send, and pgReader is blocked sending one more.
C23_Witness ==
    /\ ChainFull
    /\ \A s \in {"parser", "fetcher", "builder"} : pcw[<<s, 1>>] = "send"

\* Every stage runs with exactly one worker.
SingleWorkers == \A i \in 1..4 : Qty(Stages[i]) = 1

\* The record worker w holds, if any.
Held(w) == IF pcw[w] = "send" THEN <<cur[w]>> ELSE <<>>

\* The records in the pipeline with one worker per stage, from the bus back
\* to pgReader's output channel.
PipelineSeq ==
    bus \o Held(<<"producer", 1>>) \o chans["BuilderToProducerChan"]
        \o Held(<<"builder", 1>>) \o chans["FetcherToBuilderChan"]
        \o Held(<<"fetcher", 1>>) \o chans["ParserToFetcherChan"]
        \o Held(ParserWorker) \o chans["PgToParserChan"]

\* The batch pgReader emits for each page, in the order the query returns it.
EmittedBatch == GetUserTokensBatchByFilters(db, BatchModifiers(0))

ReorderedBus ==
    /\ Qty("producer") = 2
    /\ Len(bus) >= 2
    /\ bus[1] = 2 /\ bus[2] = 1

\* C25: no stage changes the job: worker.Message keeps the token it was
\* accepted with (none), and so does the message of every status stored.
C25_JobImmutable ==
    /\ message = NoItem
    /\ kv # NoStatus => kv["message"] = NoItem

\* C26: with a configuration file that sets nothing, Start runs exactly one
\* worker of every stage.
C26_DefaultOneWorker ==
    (config = EmptyConfigFile /\ started) =>
        \A i \in 1..4 :
            Cardinality({w \in Workers :
                            w[1] = Stages[i] /\ pcw[w] # "off"}) = 1

\* C27: with a configuration file that sets nothing, the channel from
\* pgReader to the Parsers is made with capacity 10000 and the three record
\* channels with capacity 1000.
C27_DefaultCapacities ==
    config = EmptyConfigFile =>
        /\ Cap("PgToParserChan") = 10000
        /\ Cap("ParserToFetcherChan") = 1000
        /\ Cap("FetcherToBuilderChan") = 1000
        /\ Cap("BuilderToProducerChan") = 1000

\* The records pgReader has sent so far: those still in a channel or held by
\* a worker, those on the bus, and those dropped.
EmittedRecords ==
    Len(chans["PgToParserChan"]) + Len(chans["ParserToFetcherChan"])
        + Len(chans["FetcherToBuilderChan"])
        + Len(chans["BuilderToProducerChan"])
        + Cardinality({w \in Workers : pcw[w] = "send"})
        + Len(bus) + sendFailed + CountedDrops

\* C28: within a page pgReader emits the user tokens of the batch one by one
\* in the order of the batch: the record in hand is the one after the
\* ProcessedTokens already sent, the page has sent exactly ProcessedTokens
\* records, and the page is left with ProcessedTokens equal to the size of
\* the batch after one pass; an empty batch sends nothing.
C28_OnePassPerPage ==
    /\ pcReader \in {"marshal", "send"} =>
           /\ rangeIdx \in 1..Len(userTokens)
           /\ ProcessedTokens = rangeIdx - 1
    /\ pcReader = "send" => message = userTokens[rangeIdx]
    /\ pcReader \in {"loop", "marshal", "send"} =>
           /\ ProcessedTokens <= Len(userTokens)
           /\ EmittedRecords = ProcessedPages * Len(userTokens) + ProcessedTokens
    /\ (pcReader = "page" /\ ProcessedPages > 0) =>
           /\ ProcessedTokens = Len(userTokens)
           /\ EmittedRecords = ProcessedPages * Len(userTokens)

\* Two pages of two user tokens each have been passed over once: four
\* records are sent and ProcessedTokens is the size of the batch.
C28_Witness ==
    /\ pcReader = "page"
    /\ ProcessedPages = 2
    /\ userTokens = <<1, 2>>
    /\ ProcessedTokens = 2
    /\ EmittedRecords = 4

\* Every Producer that Start spawned has returned although done was never
\* closed: each failed to create its kafka producer.
AllProducersFailed ==
    /\ started /\ closed = {}
    /\ Qty("producer") >= 1
    /\ \A w \in Workers :
           (w[1] = "producer" /\ w[2] <= Qty("producer")) => pcw[w] = "exit"

\* C29: a Producer receives from its input channel only with a kafka
\* producer created; one that failed to create it has returned holding no
\* message. When every Producer failed, nothing was taken from
\* BuilderToProducerChan (the bus is empty, no send was tried, every record
\* pgReader sent is still upstream or was dropped by a stage), done is not
\* closed, and once the channels are blocked pgReader stays in its send:
\* no step is possible.
C29_ProducerCreationFailure ==
    /\ \A w \in Workers :
           (w[1] = "producer" /\ pcw[w] \in {"select", "send"}) =>
               w \in producerOpen
    /\ \A w \in Workers :
           (w[1] = "producer" /\ pcw[w] = "exit" /\ closed = {}) =>
               (cur[w] = NoItem /\ w \notin producerOpen)
    /\ AllProducersFailed =>
           /\ bus = <<>> /\ sendFailed = 0 /\ producerOpen = {}
           /\ EmittedRecords =
                  Len(chans["PgToParserChan"]) + Len(chans["ParserToFetcherChan"])
                      + Len(chans["FetcherToBuilderChan"])
                      + Len(chans["BuilderToProducerChan"])
                      + Cardinality({w \in Workers :
                                        w[1] # "producer" /\ pcw[w] = "send"})
                      + CountedDrops
           /\ ChainFull => (~ENABLED Next /\ alive /\ closed = {})

\* The only Producer failed to create its kafka producer; the builder holds
\* a record it cannot hand over, and pgReader is blocked in its send.
C29_Witness ==
    /\ AllProducersFailed
    /\ faults = 1
    /\ pcw[<<"builder", 1>>] = "send"
    /\ Blocked("BuilderToProducerChan")
    /\ pcReader = "send" /\ Blocked("PgToParserChan")
    /\ ChainFull

\* C30: when pgReader has returned normally, ProcessedPages = TotalPages and
\* it has issued exactly TotalPages batch queries; when the count was 0 it
\* still made one page or more and issued a batch query, and sent no record
\* when that query returned nothing.
C30_ReaderReturn ==
    /\ pcReader = "returned" =>
           /\ ProcessedPages = TotalPages
           /\ Len(BatchQueries) = TotalPages
    /\ (pcReader = "returned" /\ TotalTokens = 0) =>
           /\ TotalPages >= 1
           /\ Len(BatchQueries) >= 1
           /\ userTokens = <<>> => EmittedRecords = 0

\* pgReader has returned from a job that matches no user token: one page,
\* one batch query, no record.
C30_Witness ==
    /\ pcReader = "returned"
    /\ db = <<>>
    /\ TotalTokens = 0
    /\ TotalPages = 1 /\ ProcessedPages = 1
    /\ Len(BatchQueries) = 1
    /\ EmittedRecords = 0

\* C31: GetDB keeps one handle for the process. A call made while a handle
\* is kept returns that handle without error, whatever its arguments, calls
\* InitDb no more and leaves the handle; so from the first successful GetDB
\* on the handle kept and returned is the one that call returned. A call
\* made while no handle is kept calls InitDb once; when it fails the call
\* returns nil and the error and no handle is kept.
C31_GetDBSingleton ==
    /\ [](firstDB # NilDB => (_db = firstDB /\ (got.db = firstDB /\ got.err = NoError)))
    /\ [](got.err = InitDbError => (_db = NilDB /\ got.db = NilDB))
    /\ [][\A a \in ConnArgs : GetDB(a) =>
             IF _db # NilDB
             THEN /\ got'.db = _db /\ got'.err = NoError
                  /\ initCalls' = initCalls
                  /\ _db' = _db
             ELSE initCalls' = initCalls + 1]_vars

\* A first GetDB failed, a second one called InitDb again and succeeded,
\* and a third one with other arguments returned the handle of the second
\* without a call of InitDb.
C31_Witness ==
    /\ getCalls = 3
    /\ initCalls = 2
    /\ firstDB = [conn |-> 1, id |-> 2]
    /\ got = [args |-> 2, db |-> firstDB, err |-> NoError]
    /\ _db = firstDB

\* The state of the worker alone: processedTokens <= totalTokens.
StateProcessedWithinTotal == ProcessedTokens <= TotalTokens
====
